---- MODULE Spec2Model ----
(***************************************************************************)
(* A model of csv_loader.py: loading a folder of Park Observer CSV files   *)
(* (track logs, GPS points, feature files) into a geodatabase.             *)
(*                                                                         *)
(* Python values are modelled as follows.                                  *)
(*   - a CSV item is a string; the strings that occur are listed in        *)
(*     LexOrder in their lexicographic (Python str) order;                 *)
(*   - a list is a sequence, indexed from 1 (the source indexes from 0);   *)
(*   - a dict is a function whose DOMAIN is its key set;                   *)
(*   - a variable that may be None is a sequence of length 0 (None) or 1;  *)
(*   - a typed value is a tagged record (None, int, float, date, text);    *)
(*   - a float is held in tenths (float("1.5") is 15).                     *)
(***************************************************************************)
EXTENDS Integers, Sequences, FiniteSets, TLC

(***************************************************************************)
(* Bounds of the model.                                                    *)
(***************************************************************************)
MaxFixes == 3
MaxWindows == 3
MaxFeatureRows == 2
SessionFixes == 1

(***************************************************************************)
(* T, X, Y: indexes into a key-index list (the source's 0, 1, 2, here      *)
(* counted from 1).                                                        *)
(***************************************************************************)
T == 1
X == 2
Y == 3

(***************************************************************************)
(* The strings of the model.  TimeStamps are the timestamp strings; their  *)
(* lexicographic order is their order in time.  "abc" is a string that is  *)
(* neither a number nor a date.                                            *)
(***************************************************************************)
TimeStamps == <<"10:01", "10:02", "10:03">>
LonTokens == <<"1.0", "1.5", "2.0", "2.5", "3.0", "3.5">>
LatTokens == <<"4.0", "4.5", "5.0", "5.5", "6.0", "6.5">>
LexOrder ==
    <<"", "1.0", "1.5", "10:01", "10:02", "10:03", "2.0", "2.5", "3.0", "3.5",
      "4.0", "4.5", "5.0", "5.5", "6.0", "6.5", "7", "abc">>

Range(s) == {s[i] : i \in DOMAIN s}

LexRank(str) == CHOOSE i \in DOMAIN LexOrder : LexOrder[i] = str

\* (a changed StrLess: the comparison is not strict)
StrLess_or_equal(a, b) == LexRank(a) <= LexRank(b)
\* Python's str comparison, a < b and a <= b
StrLess(a, b) == LexRank(a) < LexRank(b)
\* (a changed StrLeq: the comparison is strict)
StrLeq_strict(a, b) == LexRank(a) < LexRank(b)
StrLeq(a, b) == LexRank(a) <= LexRank(b)

(***************************************************************************)
(* Typed values.                                                           *)
(***************************************************************************)
None == [tag |-> "None"]
IntV(n) == [tag |-> "int", v |-> n]
FloatV(n) == [tag |-> "float", v |-> n]
DateV(s) == [tag |-> "date", v |-> s]
TextV(s) == [tag |-> "text", v |-> s]
\* the outcome of an expression that raised an exception
Raised(e) == [tag |-> "raise", v |-> e]
IsRaised(v) == v.tag = "raise"

\* float(string), in tenths, for the strings float() accepts
FloatOf ==
    ("1.0" :> 10) @@ ("1.5" :> 15) @@ ("2.0" :> 20) @@ ("2.5" :> 25) @@
    ("3.0" :> 30) @@ ("3.5" :> 35) @@ ("4.0" :> 40) @@ ("4.5" :> 45) @@
    ("5.0" :> 50) @@ ("5.5" :> 55) @@ ("6.0" :> 60) @@ ("6.5" :> 65) @@
    ("7" :> 70)
\* int(string) for the strings int() accepts
IntOf == ("7" :> 7)

\* float(string): the float, or ValueError
float(string) ==
    IF string \in DOMAIN FloatOf THEN FloatV(FloatOf[string])
    ELSE Raised("ValueError")

maybe_float(string) ==
    IF string \in DOMAIN FloatOf THEN FloatV(FloatOf[string]) ELSE None

\* (a changed maybe_int: int(string) with no try around it)
int_unguarded(string) ==
    IF string \in DOMAIN IntOf THEN IntV(IntOf[string]) ELSE Raised("ValueError")

maybe_int(string) ==
    IF string \in DOMAIN IntOf THEN IntV(IntOf[string]) ELSE None

\* (a changed parse_date: a string that is no date gives None, as a number does)
parse_date_or_none(string) ==
    IF string \in Range(TimeStamps) THEN DateV(string) ELSE None

\* dateutil.parser.parse(string, ignoretz=True) on the strings that occur in
\* DATE columns of the model: a timestamp parses, "abc" and "" do not.
parse_date(string) ==
    IF string \in Range(TimeStamps) THEN DateV(string)
    ELSE Raised("ValueError")

\* str.upper() of the type names that occur
upper(s) ==
    CASE s = "double" -> "DOUBLE"
      [] s = "long" -> "LONG"
      [] s = "date" -> "DATE"
      [] s = "text" -> "TEXT"
      [] s = "float" -> "FLOAT"
      [] s = "short" -> "SHORT"
      [] s = "blob" -> "BLOB"
      [] s = "guid" -> "GUID"
      [] OTHER -> s

cast(string, esri_type) ==
    LET type == upper(esri_type)
    IN  IF type \in {"DOUBLE", "FLOAT"} THEN maybe_float(string)
        ELSE IF type \in {"SHORT", "LONG"} THEN maybe_int(string)
        ELSE IF type = "DATE" THEN parse_date(string)
        ELSE IF type \in {"TEXT", "BLOB"} THEN TextV(string)
        ELSE None

\* [cast(item, types[i]) for i, item in enumerate(items)]; types[i] beyond the
\* end of types is an IndexError
cast_all(items, types) ==
    IF Len(items) > Len(types) THEN Raised("IndexError")
    ELSE LET vals == [i \in DOMAIN items |-> cast(items[i], types[i])]
         IN  IF \E i \in DOMAIN vals : IsRaised(vals[i])
             THEN Raised("ValueError")
             ELSE [tag |-> "list", v |-> vals]

filter_items_by_index(items, indexes) ==
    IF \E i \in DOMAIN indexes : indexes[i] > Len(items)
    THEN Raised("IndexError")
    ELSE [tag |-> "list", v |-> [i \in DOMAIN indexes |-> items[indexes[i]]]]

(***************************************************************************)
(* The protocol of the model (a sample protocol: the protocol is an input  *)
(* of the program, built by database_creator).                             *)
(***************************************************************************)
gps_points_csv_name == "GpsPoints"
track_logs_csv_name == "TrackLogs"
obs_name == "Observations"
\* protocol["csv"]["gps_points"]
gps_field_names == <<"Timestamp", "Longitude", "Latitude">>
gps_field_types == <<"DATE", "DOUBLE", "DOUBLE">>
gps_keys == <<1, 2, 3>>
\* protocol["mission"] attributes
mission_field_names == <<"Observer">>
mission_field_types == <<"TEXT">>
\* protocol["csv"]["track_logs"]
track_field_names == <<"Start_UTC", "End_UTC", "Length_m">>
track_field_types == <<"date", "date", "double">>
s_key == <<1>>
e_key == <<2>>
\* protocol["features"]: the names of the features the protocol defines, and
\* the attributes of each
ProtocolFeatures == {"Birds"}
feature_attr_names == <<"Count">>
feature_attr_types == <<"LONG">>
\* protocol["csv"]["features"]
feature_header == <<"F_Time", "F_Lon", "F_Lat", "O_Time", "O_Lon", "O_Lat">>
feature_field_names == <<"F_Time", "F_Lon", "F_Lat">>
feature_types == <<"DATE", "DOUBLE", "DOUBLE">>
feature_field_map == <<1, 2, 3>>
f_key == <<1, 2, 3>>
obs_field_names == <<"O_Time", "O_Lon", "O_Lat">>
observation_types == <<"DATE", "DOUBLE", "DOUBLE">>
observation_field_map == <<4, 5, 6>>
o_key == <<1, 2, 3>>

\* ",".join(field_names): a header line is modelled by its list of columns
gps_points_header == gps_field_names
track_log_header == track_field_names

\* str.endswith on header lines
endswith(line, suffix) ==
    /\ Len(line) >= Len(suffix)
    /\ SubSeq(line, Len(line) - Len(suffix) + 1, Len(line)) = suffix

\* items[:n] and items[n:] (Python slices never raise)
Take(items, n) == SubSeq(items, 1, IF n < Len(items) THEN n ELSE Len(items))
Drop(items, n) == SubSeq(items, (IF n < Len(items) THEN n ELSE Len(items)) + 1, Len(items))

\* d[key] = value on a dict
DictPut(d, key, value) ==
    [k \in DOMAIN d \cup {key} |-> IF k = key THEN value ELSE d[k]]
EmptyDict == <<>>

(***************************************************************************)
(* build_track_geometry.  lines are the data lines of the point file, pos  *)
(* the number of them the file object has already handed out; the result   *)
(* holds the path, the last point appended by this call (None if none),    *)
(* the new position of the file object and the exception raised, if any,   *)
(* and the position at which the call began to read.  A point is <<x, y>>. *)
(***************************************************************************)
RECURSIVE read_points(_, _, _, _, _, _, _)
read_points(lines, pos, path, point, start_time, end_time, keys) ==
    IF pos >= Len(lines)
    THEN [path |-> path, point |-> point, pos |-> pos, error |-> <<>>]
    ELSE LET items == lines[pos + 1]
             timestamp == items[keys[T]]
             path1 == IF StrLeq(timestamp, start_time) THEN <<>> ELSE path
             x == float(items[keys[X]])
             y == float(items[keys[Y]])
         IN  IF StrLess(timestamp, start_time)
             THEN read_points(lines, pos + 1, path1, point, start_time, end_time, keys)
             ELSE IF IsRaised(x) \/ IsRaised(y)
             THEN [path |-> path1, point |-> point, pos |-> pos + 1,
                   error |-> <<"ValueError">>]
             ELSE IF timestamp = end_time
             THEN [path |-> Append(path1, <<x.v, y.v>>), point |-> << <<x.v, y.v>> >>,
                   pos |-> pos + 1, error |-> <<>>]
             ELSE read_points(lines, pos + 1, Append(path1, <<x.v, y.v>>),
                              << <<x.v, y.v>> >>, start_time, end_time, keys)

\* (a changed build_track_geometry: the point file is read from its first
\* data line on every call)
build_track_geometry_reopened(lines, pos, prior_last_point, start_time, end_time, keys) ==
    [from |-> 0] @@
    read_points(lines, 0,
                IF prior_last_point # <<>> THEN <<prior_last_point[1]>> ELSE <<>>,
                <<>>, start_time, end_time, keys)

\* (a changed build_track_geometry: the path never starts with the prior last point)
build_track_geometry_no_carry(lines, pos, prior_last_point, start_time, end_time, keys) ==
    [from |-> pos] @@ read_points(lines, pos, <<>>, <<>>, start_time, end_time, keys)

\* (a changed build_track_geometry: with no fix appended, the point returned
\* is the prior last point)
build_track_geometry_keeps_point(lines, pos, prior_last_point, start_time, end_time, keys) ==
    [from |-> pos] @@
    read_points(lines, pos,
                IF prior_last_point # <<>> THEN <<prior_last_point[1]>> ELSE <<>>,
                prior_last_point, start_time, end_time, keys)

\* (a changed build_track_geometry: the point file is left at its end)
build_track_geometry_read_ahead(lines, pos, prior_last_point, start_time, end_time, keys) ==
    [from |-> pos] @@
    [read_points(lines, pos,
                 IF prior_last_point # <<>> THEN <<prior_last_point[1]>> ELSE <<>>,
                 <<>>, start_time, end_time, keys) EXCEPT !.pos = Len(lines)]

build_track_geometry(lines, pos, prior_last_point, start_time, end_time, keys) ==
    [from |-> pos] @@
    read_points(lines, pos,
                IF prior_last_point # <<>> THEN <<prior_last_point[1]>> ELSE <<>>,
                <<>>, start_time, end_time, keys)

(***************************************************************************)
(* The inputs: the folder and its files.                                   *)
(***************************************************************************)
\* the order in which glob lists the files of the folder
FolderOrder == <<"Birds", "GpsPoints", "Nests", "TrackLogs">>
FileNames == Range(FolderOrder)

\* the first line of a file: one that matches the protocol, and one that does not
GoodHeader(name) ==
    CASE name = gps_points_csv_name -> gps_field_names
      [] name = track_logs_csv_name -> mission_field_names \o track_field_names
      [] OTHER -> feature_attr_names \o feature_header
BadHeader == <<"Legacy">>

\* the k-th data line of a point file whose timestamps are ts
FixLine(ts, k) == <<ts[k], LonTokens[k], LatTokens[k]>>
FixLines(ts) == [k \in DOMAIN ts |-> FixLine(ts, k)]
\* the same, with a longitude that is no number on line b
FixLinesBad(ts, b) ==
    [k \in DOMAIN ts |-> IF k = b THEN <<ts[k], "abc", LatTokens[k]>> ELSE FixLine(ts, k)]

SeqsUpTo(S, n) == UNION {[1..k -> S] : k \in 0..n}

\* the lines the csv reader can yield from a track log file: a window, a
\* line with malformed timestamps, an empty line
TrackLines ==
    {<<"abc", s, e, "7">> : s \in Range(TimeStamps), e \in Range(TimeStamps)}
    \cup {<<"abc", "abc", "abc", "7">>, <<>>}

\* the lines, other than an empty one, the csv reader can yield from a
\* feature file: two well-formed ones, then one with a feature timestamp that
\* is no date, with such an observation timestamp, with a feature longitude
\* that is no number, and one that lacks the key columns
FeatureLines ==
    { <<"7", "10:01", "1.0", "4.0", "10:01", "1.0", "4.0">>,
      <<"abc", "10:02", "1.5", "4.5", "10:01", "1.0", "4.0">>,
      <<"7", "abc", "1.0", "4.0", "10:01", "1.0", "4.0">>,
      <<"7", "10:01", "1.0", "4.0", "abc", "1.0", "4.0">>,
      <<"7", "10:01", "abc", "4.0", "10:01", "1.0", "4.0">>,
      <<"7", "10:01">> }

VARIABLES
    meta_version,       \* protocol["meta-version"]
    folder,             \* the names (without .csv) of the files of csv_path
    headers,            \* the first line of each file
    point_lines,        \* the data lines of the GPS points file, split at ","
    pc,                 \* where the session is
    error,              \* the exception that ended the session, or None
    csv_filenames,      \* process_csv_folder_v1
    track_log_oids,     \* process_csv_folder_v1 (None or a dict)
    gps_points_list,    \* process_csv_folder_v1 (None or a dict)
    point_pos,          \* the position of point_f, in data lines read
    last_point,         \* process_tracklog_file_v1
    oids,               \* process_tracklog_file_v1's track_log_oids
    track_rows,         \* the number of lines read from the track log file
    track_log,          \* history: the lines read from the track log file
    calls,              \* history: the calls of build_track_geometry
    gps_pos,            \* the position of the GPS points handle
    results,            \* process_gpspoints_file_v1
    current_track_oid,  \* process_gpspoints_file_v1
    feature_idx,        \* the number of names the loop over csv_filenames is done with
    feature_name,       \* the feature file being processed
    feature_rows,       \* lines read from that file
    sink,               \* history: the insertRow calls, in order
    processed,          \* history: the files whose lines a loop was started on
    feature_log,        \* history: the lines read from feature files
    warnings,           \* the rows reported by arcpy.AddWarning
    cast_call           \* a call of cast on its own: its arguments and, once
                        \* it has returned or raised, its outcome (None in a
                        \* session)

vars ==
    <<meta_version, folder, headers, point_lines, pc, error, csv_filenames,
      track_log_oids, gps_points_list, point_pos, last_point, oids, track_rows,
      track_log, calls, gps_pos, results, current_track_oid, feature_idx, feature_name,
      feature_rows, sink, processed, feature_log, warnings, cast_call>>

inputs == <<meta_version, folder, headers, point_lines>>
track_vars == <<point_pos, last_point, oids, track_rows, track_log, calls>>
gps_vars == <<gps_pos, results, current_track_oid>>
feature_vars == <<feature_idx, feature_name, feature_rows, feature_log, warnings>>

\* cursor.insertRow(row) on a table: the object id it returns
NextOid(table) == Cardinality({i \in DOMAIN sink : sink[i].table = table}) + 1
Insert(table, row) == Append(sink, [table |-> table, oid |-> NextOid(table), row |-> row])

\* an exception nothing catches: it leaves the edit session and the program
Fail(e, where) == pc' = "failed" /\ error' = <<[type |-> e, where |-> where]>>

\* list.remove(name), for a name that is in the list
remove(names, name) ==
    LET i == CHOOSE j \in DOMAIN names : names[j] = name /\ \A k \in 1..(j - 1) : names[k] # name
    IN  SubSeq(names, 1, i - 1) \o SubSeq(names, i + 1, Len(names))

\* glob: the files of the folder in FolderOrder
RECURSIVE Listing(_, _)
Listing(names, present) ==
    IF names = <<>> THEN <<>>
    ELSE (IF Head(names) \in present THEN <<Head(names)>> ELSE <<>>)
         \o Listing(Tail(names), present)

\* non-decreasing timestamps
TimeOrdered(lines) ==
    \A i, j \in DOMAIN lines :
        i < j => LexRank(lines[i][gps_keys[T]]) <= LexRank(lines[j][gps_keys[T]])

\* increasing timestamps
StrictlyIncreasing(lines) ==
    \A i, j \in DOMAIN lines :
        i < j => LexRank(lines[i][gps_keys[T]]) < LexRank(lines[j][gps_keys[T]])

(***************************************************************************)
(* The initial states: a folder whose only files are a track log file and  *)
(* a GPS points file of up to MaxFixes lines, or any folder with at most   *)
(* one mismatching header and a GPS points file of up to SessionFixes      *)
(* lines, one of which may be malformed.                                   *)
(***************************************************************************)
InitWork ==
    /\ pc = "start"
    /\ error = <<>>
    /\ csv_filenames = <<>>
    /\ track_log_oids = <<>>
    /\ gps_points_list = <<>>
    /\ point_pos = 0
    /\ last_point = <<>>
    /\ oids = EmptyDict
    /\ track_rows = 0
    /\ track_log = <<>>
    /\ calls = <<>>
    /\ gps_pos = 0
    /\ results = EmptyDict
    /\ current_track_oid = None
    /\ feature_idx = 0
    /\ feature_name = ""
    /\ feature_rows = 0
    /\ sink = <<>>
    /\ processed = {}
    /\ feature_log = <<>>
    /\ warnings = <<>>

InitTracks ==
    /\ meta_version = 2
    /\ folder = {track_logs_csv_name, gps_points_csv_name}
    /\ headers = [n \in FileNames |-> GoodHeader(n)]
    /\ \E ts \in SeqsUpTo(Range(TimeStamps), MaxFixes) : point_lines = FixLines(ts)

InitSession ==
    /\ meta_version \in {2, 3}
    /\ folder \in SUBSET FileNames
    /\ \E bad \in SUBSET folder :
          /\ Cardinality(bad) <= 1
          /\ headers = [n \in FileNames |-> IF n \in bad THEN BadHeader ELSE GoodHeader(n)]
    /\ \E ts \in SeqsUpTo(Range(TimeStamps), SessionFixes) :
          \E b \in 0..Len(ts) :
             /\ gps_points_csv_name \notin folder => ts = <<>>
             /\ point_lines = FixLinesBad(ts, b)

Init == InitWork /\ (InitTracks \/ InitSession) /\ cast_call = <<>>

\* The number of lines read from a track log file is bounded by MaxWindows
\* when the timestamps of the fixes increase, by one less when they do not,
\* and by 1 in a folder that holds feature files.
TrackRowsBound ==
    IF folder \ {track_logs_csv_name, gps_points_csv_name} # {} THEN 1
    ELSE IF StrictlyIncreasing(point_lines) THEN MaxWindows
    ELSE MaxWindows - 1

(***************************************************************************)
(* process_csv_folder, and process_csv_folder_v1 up to the edit session.   *)
(***************************************************************************)
\* (a changed process_csv_folder: the version 1 pipeline is run whatever the
\* version)
process_csv_folder_any_version ==
    /\ pc = "start"
    /\ csv_filenames' = Listing(FolderOrder, folder)
    /\ pc' = "tracklog"
    /\ UNCHANGED <<inputs, cast_call, error, track_log_oids, gps_points_list, track_vars,
                   gps_vars, feature_vars, sink, processed>>

process_csv_folder ==
    /\ pc = "start"
    /\ IF meta_version <= 2
       THEN /\ csv_filenames' = Listing(FolderOrder, folder)
            /\ pc' = "tracklog"
       ELSE /\ pc' = "unsupported"
            /\ UNCHANGED csv_filenames
    /\ UNCHANGED <<inputs, cast_call, error, track_log_oids, gps_points_list, track_vars,
                   gps_vars, feature_vars, sink, processed>>

(***************************************************************************)
(* process_csv_folder_v1, first step, and process_tracklog_path_v1: the    *)
(* two files are opened and their first lines compared.                    *)
(***************************************************************************)
process_tracklog_path_v1 ==
    /\ pc = "tracklog"
    /\ IF /\ track_logs_csv_name \in Range(csv_filenames)
          /\ gps_points_csv_name \in Range(csv_filenames)
       THEN IF /\ headers[gps_points_csv_name] = gps_points_header
               /\ endswith(headers[track_logs_csv_name], track_log_header)
            THEN /\ pc' = "track_rows"
                 /\ processed' = processed \cup {track_logs_csv_name}
                 /\ UNCHANGED <<track_log_oids, csv_filenames>>
            ELSE /\ track_log_oids' = <<EmptyDict>>
                 /\ csv_filenames' = remove(csv_filenames, track_logs_csv_name)
                 /\ pc' = "gpspoints"
                 /\ UNCHANGED processed
       ELSE /\ pc' = "gpspoints"
            /\ UNCHANGED <<track_log_oids, csv_filenames, processed>>
    /\ UNCHANGED <<inputs, cast_call, error, gps_points_list, track_vars, gps_vars,
                   feature_vars, sink>>

(***************************************************************************)
(* process_tracklog_file_v1: one pass of the loop over the lines of the    *)
(* track log file.                                                         *)
(***************************************************************************)
TrackCall(start_time, end_time, res) ==
    [start |-> start_time, end |-> end_time, prior |-> last_point,
     from |-> res.from, to |-> res.pos, path |-> res.path, point |-> res.point,
     error |-> res.error]

track_row(line) ==
    LET mission_fields_count == Len(mission_field_names)
        protocol_items == Take(line, mission_fields_count)
        other_items == Drop(line, mission_fields_count)
    IN  IF Len(other_items) < s_key[T] \/ Len(other_items) < e_key[T]
        THEN /\ Fail("IndexError", "track_row")
             /\ UNCHANGED <<point_pos, last_point, oids, calls, sink>>
        ELSE
        LET start_time == other_items[s_key[T]]
            end_time == other_items[e_key[T]]
            res == build_track_geometry(point_lines, point_pos, last_point,
                                        start_time, end_time, gps_keys)
            mission == cast_all(protocol_items, mission_field_types)
            other == cast_all(other_items, track_field_types)
        IN  /\ calls' = Append(calls, TrackCall(start_time, end_time, res))
            /\ point_pos' = res.pos
            /\ IF res.error # <<>>
               THEN Fail(res.error[1], "track_row") /\ UNCHANGED <<last_point, oids, sink>>
               ELSE /\ last_point' = res.point
                    /\ IF IsRaised(mission) \/ IsRaised(other)
                       THEN /\ Fail(IF IsRaised(mission) THEN mission.v ELSE other.v,
                                    "track_row")
                            /\ UNCHANGED <<oids, sink>>
                       ELSE /\ sink' = Insert(track_logs_csv_name,
                                              <<res.path>> \o mission.v \o other.v)
                            /\ oids' = DictPut(oids, start_time,
                                               NextOid(track_logs_csv_name))
                            /\ UNCHANGED <<pc, error>>

process_tracklog_row ==
    /\ pc = "track_rows"
    /\ track_rows < TrackRowsBound
    /\ \E line \in TrackLines :
          /\ track_row(line)
          /\ track_log' = Append(track_log, line)
    /\ track_rows' = track_rows + 1
    /\ UNCHANGED <<inputs, cast_call, csv_filenames, track_log_oids, gps_points_list,
                   gps_vars, feature_vars, processed>>

\* the track log file is at its end: process_tracklog_file_v1 returns
process_tracklog_end ==
    /\ pc = "track_rows"
    /\ track_log_oids' = <<oids>>
    /\ csv_filenames' = remove(csv_filenames, track_logs_csv_name)
    /\ pc' = "gpspoints"
    /\ UNCHANGED <<inputs, cast_call, error, gps_points_list, track_vars, gps_vars,
                   feature_vars, sink, processed>>

(***************************************************************************)
(* process_gpspoints_path_v1 and process_gpspoints_file_v1.                *)
(***************************************************************************)
process_gpspoints_path_v1 ==
    /\ pc = "gpspoints"
    /\ IF gps_points_csv_name \in Range(csv_filenames)
       THEN IF headers[gps_points_csv_name] = gps_points_header
            THEN /\ pc' = "gps_rows"
                 /\ processed' = processed \cup {gps_points_csv_name}
                 /\ UNCHANGED <<gps_points_list, csv_filenames>>
            ELSE /\ gps_points_list' = <<EmptyDict>>
                 /\ csv_filenames' = remove(csv_filenames, gps_points_csv_name)
                 /\ pc' = "features"
                 /\ UNCHANGED processed
       ELSE /\ pc' = "features"
            /\ UNCHANGED <<gps_points_list, csv_filenames, processed>>
    /\ UNCHANGED <<inputs, cast_call, error, track_log_oids, track_vars, gps_vars,
                   feature_vars, sink>>

\* Python's truth value of a variable that holds None or a dict
Truthy(dict) == dict # <<>> /\ DOMAIN dict[1] # {}

\* (a changed gps_row: a fix whose timestamp starts no track gets no track)
gps_row_forgets_track(items) ==
    LET x == float(items[gps_keys[X]])
        y == float(items[gps_keys[Y]])
        values == cast_all(items, gps_field_types)
        timestamp == items[gps_keys[T]]
        track_oid == IF timestamp \in DOMAIN track_log_oids[1]
                     THEN IntV(track_log_oids[1][timestamp])
                     ELSE None
    IN  IF IsRaised(x) \/ IsRaised(y)
        THEN /\ Fail("ValueError", "gps_row")
             /\ UNCHANGED <<results, current_track_oid, sink>>
        ELSE IF IsRaised(values)
        THEN /\ Fail(values.v, "gps_row")
             /\ UNCHANGED <<results, current_track_oid, sink>>
        ELSE /\ IF Truthy(track_log_oids)
                THEN /\ current_track_oid' = track_oid
                     /\ sink' = Insert(gps_points_csv_name,
                                       << <<x.v, y.v>> >> \o values.v \o <<track_oid>>)
                ELSE /\ UNCHANGED current_track_oid
                     /\ sink' = Insert(gps_points_csv_name, << <<x.v, y.v>> >> \o values.v)
             /\ results' = DictPut(results, timestamp, NextOid(gps_points_csv_name))
             /\ UNCHANGED <<pc, error>>

gps_row(items) ==
    LET x == float(items[gps_keys[X]])
        y == float(items[gps_keys[Y]])
        values == cast_all(items, gps_field_types)
        timestamp == items[gps_keys[T]]
        track_oid == IF timestamp \in DOMAIN track_log_oids[1]
                     THEN IntV(track_log_oids[1][timestamp])
                     ELSE current_track_oid
    IN  IF IsRaised(x) \/ IsRaised(y)
        THEN /\ Fail("ValueError", "gps_row")
             /\ UNCHANGED <<results, current_track_oid, sink>>
        ELSE IF IsRaised(values)
        THEN /\ Fail(values.v, "gps_row")
             /\ UNCHANGED <<results, current_track_oid, sink>>
        ELSE /\ IF Truthy(track_log_oids)
                THEN /\ current_track_oid' = track_oid
                     /\ sink' = Insert(gps_points_csv_name,
                                       << <<x.v, y.v>> >> \o values.v \o <<track_oid>>)
                ELSE /\ UNCHANGED current_track_oid
                     /\ sink' = Insert(gps_points_csv_name, << <<x.v, y.v>> >> \o values.v)
             /\ results' = DictPut(results, timestamp, NextOid(gps_points_csv_name))
             /\ UNCHANGED <<pc, error>>

process_gpspoints_row ==
    /\ pc = "gps_rows"
    /\ gps_pos < Len(point_lines)
    /\ gps_row(point_lines[gps_pos + 1])
    /\ gps_pos' = gps_pos + 1
    /\ UNCHANGED <<inputs, cast_call, csv_filenames, track_log_oids, gps_points_list,
                   track_vars, feature_vars, processed>>

\* the GPS points file is at its end: process_gpspoints_file_v1 returns
process_gpspoints_end ==
    /\ pc = "gps_rows"
    /\ gps_pos = Len(point_lines)
    /\ gps_points_list' = <<results>>
    /\ csv_filenames' = remove(csv_filenames, gps_points_csv_name)
    /\ pc' = "features"
    /\ UNCHANGED <<inputs, cast_call, error, track_log_oids, track_vars, gps_vars,
                   feature_vars, sink, processed>>

(***************************************************************************)
(* The loop over the remaining names, process_feature_path_v1 and the      *)
(* start of process_feature_file_v1.                                       *)
(***************************************************************************)
\* the attributes of the named feature; with no feature of that name in the
\* protocol, attributes stays None and the loop over it is a TypeError
extract_feature_attributes_from_protocol(name) ==
    LET attributes == IF name \in ProtocolFeatures
                      THEN << [names |-> feature_attr_names, types |-> feature_attr_types] >>
                      ELSE <<>>
    IN  IF attributes = <<>> THEN Raised("TypeError")
        ELSE [tag |-> "fields", names |-> attributes[1].names, types |-> attributes[1].types]

process_feature_path_v1 ==
    /\ pc = "features"
    /\ IF feature_idx < Len(csv_filenames)
       THEN LET name == csv_filenames[feature_idx + 1]
            IN  IF endswith(headers[name], feature_header)
                THEN IF IsRaised(extract_feature_attributes_from_protocol(name))
                     THEN /\ Fail(extract_feature_attributes_from_protocol(name).v,
                                  "feature_file")
                          /\ feature_name' = name
                          /\ UNCHANGED <<feature_idx, feature_rows, processed>>
                     ELSE /\ pc' = "feature_rows"
                          /\ feature_name' = name
                          /\ feature_rows' = 0
                          /\ processed' = processed \cup {name}
                          /\ UNCHANGED <<error, feature_idx>>
                ELSE /\ feature_idx' = feature_idx + 1
                     /\ UNCHANGED <<pc, error, feature_name, feature_rows, processed>>
       ELSE /\ pc' = "done"
            /\ UNCHANGED <<error, feature_idx, feature_name, feature_rows, processed>>
    /\ UNCHANGED <<inputs, cast_call, csv_filenames, track_log_oids, gps_points_list,
                   track_vars, gps_vars, sink, feature_log, warnings>>

(***************************************************************************)
(* process_feature_file_v1: one pass of the loop over the lines of the     *)
(* feature file.                                                           *)
(***************************************************************************)
\* gps_points_list[timestamp], with KeyError caught; subscripting None is a
\* TypeError, which is not caught
gps_oid(timestamp) ==
    IF gps_points_list = <<>> THEN Raised("TypeError")
    ELSE IF timestamp \in DOMAIN gps_points_list[1]
    THEN IntV(gps_points_list[1][timestamp])
    ELSE None

\* (a changed insert_observation_and_feature: the feature is inserted first,
\* with the object id the observation is going to get)
insert_feature_then_observation(observation, feature) ==
    LET observation_oid == NextOid(obs_name)
    IN  Append(Append(sink, [table |-> feature_name, oid |-> NextOid(feature_name),
                             row |-> Append(feature, IntV(observation_oid))]),
               [table |-> obs_name, oid |-> observation_oid, row |-> observation])

\* the sink after the two insertRow calls that end a pass of the loop
insert_observation_and_feature(observation, feature) ==
    LET observation_oid == NextOid(obs_name)
    IN  Append(Insert(obs_name, observation),
               [table |-> feature_name, oid |-> NextOid(feature_name),
                row |-> Append(feature, IntV(observation_oid))])

feature_row(line) ==
    LET fields == extract_feature_attributes_from_protocol(feature_name)
        feature_fields_count == Len(fields.names)
        protocol_items == Take(line, feature_fields_count)
        other_items == Drop(line, feature_fields_count)
        feature_items == filter_items_by_index(other_items, feature_field_map)
        observe_items == filter_items_by_index(other_items, observation_field_map)
    IN  IF IsRaised(feature_items) \/ IsRaised(observe_items)
        THEN Fail("IndexError", "feature_row") /\ UNCHANGED <<sink, warnings>>
        ELSE
        LET feature_timestamp == feature_items.v[f_key[T]]
            fx == float(feature_items.v[f_key[X]])
            fy == float(feature_items.v[f_key[Y]])
            observation_timestamp == observe_items.v[o_key[T]]
            ox == float(observe_items.v[o_key[X]])
            oy == float(observe_items.v[o_key[Y]])
            feature_gps_oid == gps_oid(feature_timestamp)
            observation_gps_oid == gps_oid(observation_timestamp)
            fattrs == cast_all(protocol_items, fields.types)
            fvalues == cast_all(feature_items.v, feature_types)
            ovalues == cast_all(observe_items.v, observation_types)
        IN  IF IsRaised(fx) \/ IsRaised(fy) \/ IsRaised(ox) \/ IsRaised(oy)
            THEN Fail("ValueError", "feature_row") /\ UNCHANGED <<sink, warnings>>
            ELSE IF IsRaised(feature_gps_oid) \/ IsRaised(observation_gps_oid)
            THEN Fail("TypeError", "feature_row") /\ UNCHANGED <<sink, warnings>>
            ELSE IF IsRaised(fattrs) \/ IsRaised(fvalues) \/ IsRaised(ovalues)
            THEN \* except Exception: the row is reported and skipped
                 /\ warnings' = Append(warnings, [table |-> feature_name, record |-> line])
                 /\ UNCHANGED <<pc, error, sink>>
            ELSE LET observation == << <<ox.v, oy.v>> >> \o ovalues.v \o <<observation_gps_oid>>
                     feature == << <<fx.v, fy.v>> >> \o fattrs.v \o fvalues.v
                                \o <<feature_gps_oid>>
                 IN  /\ sink' = insert_observation_and_feature(observation, feature)
                     /\ UNCHANGED <<pc, error, warnings>>

process_feature_row ==
    /\ pc = "feature_rows"
    /\ feature_rows < MaxFeatureRows
    /\ \E line \in FeatureLines :
          /\ feature_row(line)
          /\ feature_log' = Append(feature_log, [file |-> feature_name, line |-> line])
    /\ feature_rows' = feature_rows + 1
    /\ UNCHANGED <<inputs, cast_call, csv_filenames, track_log_oids, gps_points_list,
                   track_vars, gps_vars, feature_idx, feature_name, processed>>

\* (a changed process_feature_end: the lookup is emptied when a feature file
\* has been read)
process_feature_end_clears_lookup ==
    /\ pc = "feature_rows"
    /\ feature_idx' = feature_idx + 1
    /\ pc' = "features"
    /\ gps_points_list' = <<EmptyDict>>
    /\ UNCHANGED <<inputs, cast_call, error, csv_filenames, track_log_oids,
                   track_vars, gps_vars, feature_name, feature_rows, sink,
                   processed, feature_log, warnings>>

\* the feature file is at its end, or the csv reader yields an empty line:
\* the loop ends and process_feature_file_v1 returns
process_feature_end ==
    /\ pc = "feature_rows"
    /\ feature_idx' = feature_idx + 1
    /\ pc' = "features"
    /\ UNCHANGED <<inputs, cast_call, error, csv_filenames, track_log_oids, gps_points_list,
                   track_vars, gps_vars, feature_name, feature_rows, sink,
                   processed, feature_log, warnings>>

Next ==
    \/ process_csv_folder
    \/ process_tracklog_path_v1
    \/ process_tracklog_row
    \/ process_tracklog_end
    \/ process_gpspoints_path_v1
    \/ process_gpspoints_row
    \/ process_gpspoints_end
    \/ process_feature_path_v1
    \/ process_feature_row
    \/ process_feature_end

Spec == Init /\ [][Next]_vars

(***************************************************************************)
(* cast on its own: one call, on a token and a declared type.  The tokens  *)
(* are the strings of the model; under DATE they are those whose parse is  *)
(* modelled (a timestamp, "abc", the empty string).  "GUID" is a type cast *)
(* does not know.                                                          *)
(***************************************************************************)
CastTokens == Range(LexOrder)
DateTokens == Range(TimeStamps) \cup {"abc", ""}
EsriTypes ==
    {"DOUBLE", "FLOAT", "SHORT", "LONG", "DATE", "TEXT", "BLOB", "GUID",
     "double", "float", "short", "long", "date", "text", "blob", "guid"}

CastInit ==
    /\ InitWork
    /\ meta_version = 2
    /\ folder = {}
    /\ headers = [n \in FileNames |-> GoodHeader(n)]
    /\ point_lines = <<>>
    /\ \E string \in CastTokens, esri_type \in EsriTypes :
          /\ esri_type \in {"DATE", "date"} => string \in DateTokens
          /\ cast_call = <<[string |-> string, esri_type |-> esri_type, outcome |-> <<>>]>>

call_cast ==
    /\ cast_call # <<>>
    /\ cast_call[1].outcome = <<>>
    /\ cast_call' = <<[cast_call[1] EXCEPT
                         !.outcome = <<cast(cast_call[1].string, cast_call[1].esri_type)>>]>>
    /\ UNCHANGED <<inputs, pc, error, csv_filenames, track_log_oids, gps_points_list,
                   track_vars, gps_vars, feature_vars, sink, processed>>

CastNext == call_cast

CastSpec == CastInit /\ [][CastNext]_vars

(***************************************************************************)
(* Definitions used to state the properties.                               *)
(***************************************************************************)
Last(seq) == seq[Len(seq)]
Rows(table) == SelectSeq(sink, LAMBDA r : r.table = table)
\* the Track Records emitted, in order; the k-th is the outcome of calls[k]
Tracks == Rows(track_logs_csv_name)
PathOf(track) == track.row[1]
StartOf(track) == track.row[3].v
EndOf(track) == track.row[4].v
FeatureTables == FileNames \ {track_logs_csv_name, gps_points_csv_name}

\* the coordinate of the k-th fix (<<>> if it is malformed)
PointOf(k) ==
    IF point_lines[k][gps_keys[X]] \in DOMAIN FloatOf /\ point_lines[k][gps_keys[Y]] \in DOMAIN FloatOf
    THEN <<FloatOf[point_lines[k][gps_keys[X]]], FloatOf[point_lines[k][gps_keys[Y]]]>>
    ELSE <<>>
TimeOfFix(k) == point_lines[k][gps_keys[T]]
\* the fixes of the stream differ in their coordinates: the fix of a point
FixOfPoint(p) == CHOOSE k \in DOMAIN point_lines : PointOf(k) = p
\* the fixes at positions lo..hi with timestamp in [start, end], in stream order
RECURSIVE FixesWithin(_, _, _, _)
FixesWithin(lo, hi, start, end) ==
    IF lo > hi THEN <<>>
    ELSE (IF /\ LexRank(start) <= LexRank(TimeOfFix(lo))
             /\ LexRank(TimeOfFix(lo)) <= LexRank(end)
          THEN <<PointOf(lo)>> ELSE <<>>)
         \o FixesWithin(lo + 1, hi, start, end)
LinesRead(call) == (call.from + 1)..call.to

(***************************************************************************)
(* C1: every line of the fix stream is read by at most one call of         *)
(* build_track_geometry: a call reads the lines from its starting position *)
(* to its final position, which is not before it, and the next call starts *)
(* where the one before it stopped or later.                               *)
(***************************************************************************)
C1_FixReadByAtMostOneCall ==
    /\ \A i \in DOMAIN calls : calls[i].from <= calls[i].to
    /\ \A i, j \in DOMAIN calls :
          i < j => /\ calls[i].to <= calls[j].from
                   /\ LinesRead(calls[i]) \cap LinesRead(calls[j]) = {}
    /\ \A i \in DOMAIN calls : calls[i].to <= point_pos

\* two calls that each read lines of the stream
C1_Witness ==
    /\ Len(calls) >= 2
    /\ LinesRead(calls[1]) # {}
    /\ LinesRead(calls[2]) # {}

(***************************************************************************)
(* C2.  The k-th and k+1-st tracks are touching windows (t1,t2), (t2,t3)   *)
(* with t1 < t2 < t3 when each of the three is the timestamp of a fix.     *)
(***************************************************************************)
Touching(k) ==
    /\ k + 1 \in DOMAIN Tracks
    /\ EndOf(Tracks[k]) = StartOf(Tracks[k + 1])
    /\ LexRank(StartOf(Tracks[k])) < LexRank(EndOf(Tracks[k]))
    /\ LexRank(StartOf(Tracks[k + 1])) < LexRank(EndOf(Tracks[k + 1]))
    /\ \A t \in {StartOf(Tracks[k]), EndOf(Tracks[k]), EndOf(Tracks[k + 1])} :
          \E f \in DOMAIN point_lines : TimeOfFix(f) = t

SharedPoint(k) ==
    \E f \in DOMAIN point_lines :
        /\ TimeOfFix(f) = EndOf(Tracks[k])
        /\ PathOf(Tracks[k]) # <<>>
        /\ Last(PathOf(Tracks[k])) = PointOf(f)
        /\ PathOf(Tracks[k + 1]) # <<>>
        /\ PathOf(Tracks[k + 1])[1] = PointOf(f)

\* C2 as stated: for a strictly increasing fix stream and touching windows
\* (t1,t2), (t2,t3), the point of the fix at t2 is the last point of the
\* first track and the first point of the second.
C2_SharedPointOfTouchingWindows_AsStated ==
    StrictlyIncreasing(point_lines) =>
        \A k \in DOMAIN Tracks : Touching(k) => SharedPoint(k)

\* C2 (amended): the same, for windows whose fix at t2 had not been read when
\* the call for the first window began.
C2_SharedPointOfTouchingWindows ==
    StrictlyIncreasing(point_lines) =>
        \A k \in DOMAIN Tracks :
            (/\ Touching(k)
             /\ \E f \in DOMAIN point_lines :
                   TimeOfFix(f) = EndOf(Tracks[k]) /\ f > calls[k].from)
            => SharedPoint(k)

\* touching windows after an earlier window, the fix at t2 not yet read
C2_Witness ==
    /\ StrictlyIncreasing(point_lines)
    /\ \E k \in DOMAIN Tracks :
          /\ k > 1
          /\ Touching(k)
          /\ \E f \in DOMAIN point_lines :
                TimeOfFix(f) = EndOf(Tracks[k]) /\ f > calls[k].from

(***************************************************************************)
(* C3: for a strictly increasing fix stream and a call whose start and end *)
(* (start <= end) are timestamps of fixes not read before the call, the    *)
(* path returned is the points of the fixes with timestamp in [start, end] *)
(* in stream order.                                                        *)
(***************************************************************************)
WindowOfUnreadFixes(call) ==
    /\ LexRank(call.start) <= LexRank(call.end)
    /\ \E f \in DOMAIN point_lines : f > call.from /\ TimeOfFix(f) = call.start
    /\ \E f \in DOMAIN point_lines : f > call.from /\ TimeOfFix(f) = call.end

C3_PathIsFixesOfWindow ==
    StrictlyIncreasing(point_lines) =>
        \A i \in DOMAIN calls :
            (calls[i].error = <<>> /\ WindowOfUnreadFixes(calls[i]))
            => calls[i].path =
                 FixesWithin(1, Len(point_lines), calls[i].start, calls[i].end)

\* a call with a prior last point whose window holds more than one fix
C3_Witness ==
    /\ StrictlyIncreasing(point_lines)
    /\ \E i \in DOMAIN calls :
          /\ calls[i].error = <<>>
          /\ WindowOfUnreadFixes(calls[i])
          /\ calls[i].prior # <<>>
          /\ Len(calls[i].path) >= 2

(***************************************************************************)
(* C4 (as stated): when the fix stream is in time order, every Track       *)
(* Record emitted has a non-empty path in time order whose first point is  *)
(* not after the window's start and whose last point is not before its end.*)
(***************************************************************************)
C4_TrackPathCoversWindow ==
    TimeOrdered(point_lines) =>
        \A k \in DOMAIN Tracks :
            LET path == PathOf(Tracks[k])
                time(i) == LexRank(TimeOfFix(FixOfPoint(path[i])))
            IN  /\ path # <<>>
                /\ \A i, j \in DOMAIN path : i < j => time(i) <= time(j)
                /\ time(1) <= LexRank(StartOf(Tracks[k]))
                /\ time(Len(path)) >= LexRank(EndOf(Tracks[k]))

(***************************************************************************)
(* C5: a Feature Record is inserted right after the Observation Record of  *)
(* its row, and its last value is the object id the sink returned for that *)
(* Observation Record.                                                     *)
(***************************************************************************)
C5_ObservationBeforeFeature ==
    \A i \in DOMAIN sink :
        sink[i].table \in FeatureTables =>
            /\ i > 1
            /\ sink[i - 1].table = obs_name
            /\ Last(sink[i].row) = IntV(sink[i - 1].oid)
            /\ \A j \in 1..(i - 2) : sink[j].table = obs_name => sink[j].oid # sink[i - 1].oid

\* the second feature row of a session
C5_Witness ==
    \E i \in DOMAIN sink :
        /\ sink[i].table \in FeatureTables
        /\ Last(sink[i].row) = IntV(2)

(***************************************************************************)
(* C6: a feature row whose feature attributes are malformed (its feature   *)
(* timestamp is no date) and whose observation attributes are valid        *)
(* inserts nothing, and the sink holds as many Observation Records as      *)
(* Feature Records.                                                        *)
(***************************************************************************)
MalformedFeatureOnly(line) ==
    /\ Len(line) = 7
    /\ line[2] \notin Range(TimeStamps)
    /\ line[5] \in Range(TimeStamps)
    /\ \A i \in {3, 4, 6, 7} : line[i] \in DOMAIN FloatOf
ObservationCount == Len(Rows(obs_name))
FeatureCount == Cardinality({i \in DOMAIN sink : sink[i].table \in FeatureTables})

C6_MalformedFeatureRowSkipped ==
    [][/\ (/\ feature_log' # feature_log
           /\ MalformedFeatureOnly(Last(feature_log').line)) => sink' = sink
       /\ ObservationCount' = FeatureCount']_vars

\* such a row has been skipped after another row was emitted
C6_Witness ==
    /\ feature_log # <<>>
    /\ MalformedFeatureOnly(Last(feature_log).line)
    /\ warnings # <<>>
    /\ Last(warnings).record = Last(feature_log).line
    /\ ObservationCount = 1
    /\ pc = "feature_rows"

(***************************************************************************)
(* C7 (as stated): an exception raised while building the typed record of  *)
(* a track log row, a GPS point row or a feature row (a ValueError: a      *)
(* malformed timestamp or coordinate) does not end the session.            *)
(***************************************************************************)
C7_RowFailureSkipsOnlyTheRow ==
    ~(/\ pc = "failed"
      /\ error[1].where \in {"track_row", "gps_row", "feature_row"}
      /\ error[1].type = "ValueError")

(***************************************************************************)
(* C8 (as stated): looking a timestamp up in the identifier lookup never   *)
(* fails, also in a session without a GPS points file.                     *)
(***************************************************************************)
C8_MissingLookupKeyIsNoFailure ==
    ~(/\ pc = "failed"
      /\ error[1] = [type |-> "TypeError", where |-> "feature_row"])

(***************************************************************************)
(* C9 (as stated): when a feature file names no feature of the protocol,   *)
(* the session fails and nothing has been inserted into the sink.          *)
(***************************************************************************)
C9_UnknownFeatureFailsBeforeAnyInsert ==
    (pc = "failed" /\ error[1].where = "feature_file") => sink = <<>>

(***************************************************************************)
(* C10 (as stated, for a session that runs to its end in a folder that     *)
(* holds the track log and the GPS points file): when the header of one    *)
(* file does not match, no record of that file is inserted and every other *)
(* file whose header matches is processed.                                 *)
(***************************************************************************)
HeaderMatches(name) ==
    IF name = gps_points_csv_name THEN headers[name] = gps_points_header
    ELSE IF name = track_logs_csv_name THEN endswith(headers[name], track_log_header)
    ELSE endswith(headers[name], feature_header)

C10_HeaderMismatchSkipsOneFile ==
    (/\ pc = "done"
     /\ {track_logs_csv_name, gps_points_csv_name} \subseteq folder)
    => \A f \in folder :
          ~HeaderMatches(f) =>
              /\ Rows(f) = <<>>
              /\ \A g \in folder \ {f} : HeaderMatches(g) => g \in processed

(***************************************************************************)
(* C11: building the identifier lookup and consuming it do not overlap: in *)
(* the order of the insertRow calls no GPS point record follows an         *)
(* Observation or Feature Record, and once the loop over the feature files *)
(* has begun neither the lookup handed to it nor the dict it was built in  *)
(* changes.                                                                *)
(***************************************************************************)
FeatureProcessing == pc \in {"features", "feature_rows"}
NoFixAfterObservation ==
    \A i, j \in DOMAIN sink :
        (i < j /\ sink[i].table \in FeatureTables \cup {obs_name})
        => sink[j].table # gps_points_csv_name

C11_LookupBuiltBeforeConsumed ==
    [][/\ NoFixAfterObservation'
       /\ FeatureProcessing => (/\ gps_points_list' = gps_points_list
                                /\ results' = results)]_vars

\* a feature row has been emitted with the identifier of a GPS point record
\* that was inserted before it
C11_Witness ==
    /\ pc = "feature_rows"
    /\ Rows(gps_points_csv_name) # <<>>
    /\ \E i \in DOMAIN sink :
          /\ sink[i].table \in FeatureTables
          /\ sink[i].row[Len(sink[i].row) - 1] = IntV(1)

(***************************************************************************)
(* C12: in a GPS points pass with a non-empty track index, the k-th GPS    *)
(* point record ends with the object id of the track that starts at the    *)
(* timestamp of the latest fix, among the first k, at which a track starts *)
(* (of the last such track, when several start there), and with null when  *)
(* no track starts at any of the first k fixes.                            *)
(***************************************************************************)
GpsRows == Rows(gps_points_csv_name)
Max(S) == CHOOSE n \in S : \A m \in S : m <= n
TracksStartingAt(t) == {i \in DOMAIN Tracks : StartOf(Tracks[i]) = t}
FixesStartingATrack(k) == {j \in 1..k : TracksStartingAt(TimeOfFix(j)) # {}}
TrackResolvedAt(k) ==
    LET fixes == FixesStartingATrack(k)
    IN  IF fixes = {} THEN None
        ELSE IntV(Tracks[Max(TracksStartingAt(TimeOfFix(Max(fixes))))].oid)

C12_FixCarriesLatestTrack ==
    Truthy(track_log_oids) =>
        LET rows == GpsRows
        IN  \A k \in DOMAIN rows :
                /\ Len(rows[k].row) = Len(gps_field_names) + 2
                /\ Last(rows[k].row) = TrackResolvedAt(k)

\* three fixes: none before the first track starts, then each of two tracks
\* carried on
C12_Witness ==
    /\ Truthy(track_log_oids)
    /\ Len(GpsRows) = 3
    /\ Last(GpsRows[1].row) = None
    /\ Last(GpsRows[2].row) # None
    /\ Last(GpsRows[3].row) = Last(GpsRows[2].row)
    /\ TracksStartingAt(TimeOfFix(3)) = {}

(***************************************************************************)
(* C13 (as stated, for the track log file): when the csv reader yields an  *)
(* empty line, the session does not fail: the file's processing ends and   *)
(* the session goes on to the GPS points step.                             *)
(***************************************************************************)
C13_EmptyLineEndsFileWithoutError ==
    (track_log # <<>> /\ Last(track_log) = <<>>) => pc # "failed"

(***************************************************************************)
(* C14: with a meta-version above 2, process_csv_folder goes to its report *)
(* and returns: the folder is not listed, no file is read, nothing is      *)
(* inserted and nothing is raised; with a meta-version of 2 or less        *)
(* process_csv_folder_v1 is run (the folder is listed, the session is past *)
(* the report).                                                            *)
(***************************************************************************)
C14_UnsupportedVersionDoesNothing ==
    pc # "start" =>
        IF meta_version > 2
        THEN /\ pc = "unsupported"
             /\ csv_filenames = <<>>
             /\ processed = {}
             /\ sink = <<>>
             /\ error = <<>>
             /\ track_log = <<>> /\ feature_log = <<>> /\ gps_pos = 0 /\ point_pos = 0
        ELSE /\ pc # "unsupported"
             /\ Range(csv_filenames) \subseteq folder
             /\ pc = "tracklog" => Range(csv_filenames) = folder

\* a folder that holds all files, with a protocol of version 3: reported
C14_Witness ==
    /\ pc = "unsupported"
    /\ meta_version = 3
    /\ folder = FileNames

(***************************************************************************)
(* C15: a call of cast raises only for the type DATE and a token that is   *)
(* no date; for DOUBLE, FLOAT, SHORT and LONG it does not raise and gives  *)
(* null for a token that is no number; for TEXT and BLOB it gives the      *)
(* token; for a type it does not know it gives null.  The type is taken    *)
(* in either case of letters.                                              *)
(***************************************************************************)
FloatTypeNames == {"DOUBLE", "FLOAT", "double", "float"}
IntTypeNames == {"SHORT", "LONG", "short", "long"}
DateTypeNames == {"DATE", "date"}
TextTypeNames == {"TEXT", "BLOB", "text", "blob"}
IsNumber(string) == string \in DOMAIN FloatOf

C15_CastRaisesOnlyForDates ==
    (cast_call # <<>> /\ cast_call[1].outcome # <<>>) =>
        LET string == cast_call[1].string
            esri_type == cast_call[1].esri_type
            value == cast_call[1].outcome[1]
        IN  /\ esri_type \in FloatTypeNames \cup IntTypeNames =>
                  /\ ~IsRaised(value)
                  /\ ~IsNumber(string) => value = None
                  /\ value # None => value.tag = (IF esri_type \in IntTypeNames
                                                  THEN "int" ELSE "float")
            /\ esri_type \in TextTypeNames => value = TextV(string)
            /\ esri_type \notin FloatTypeNames \cup IntTypeNames \cup DateTypeNames
                                \cup TextTypeNames => value = None
            /\ IsRaised(value) <=>
                  (esri_type \in DateTypeNames /\ string \notin Range(TimeStamps))

\* cast("abc", "short") has returned null
C15_Witness ==
    /\ cast_call # <<>>
    /\ cast_call[1].string = "abc"
    /\ cast_call[1].esri_type = "short"
    /\ cast_call[1].outcome = <<None>>

(***************************************************************************)
(* C16: the path a call of build_track_geometry returns.  With no fix read *)
(* at or before the window's start it is the carried-over point, if any,   *)
(* and then every fix read; otherwise it is the fixes read from the last   *)
(* one at or before the start onward, that one left out when it is before  *)
(* the start.  So the path holds the carried-over point only when no fix   *)
(* read was at or before the start, and holds no fix read that is before   *)
(* the start.                                                              *)
(***************************************************************************)
PointsOf(lo, hi) == [i \in 1..(hi - lo + 1) |-> PointOf(lo + i - 1)]
ResetFixes(call) ==
    {f \in LinesRead(call) : LexRank(TimeOfFix(f)) <= LexRank(call.start)}
CarriedOver(call) == IF call.prior # <<>> THEN <<call.prior[1]>> ELSE <<>>

C16_PathRestartsAtWindowStart ==
    \A i \in DOMAIN calls :
        calls[i].error = <<>> =>
            LET call == calls[i]
                resets == ResetFixes(call)
                last_reset == Max(resets)
            IN  /\ call.path =
                      IF resets = {}
                      THEN CarriedOver(call) \o PointsOf(call.from + 1, call.to)
                      ELSE (IF TimeOfFix(last_reset) = call.start
                            THEN <<PointOf(last_reset)>> ELSE <<>>)
                           \o PointsOf(last_reset + 1, call.to)
                /\ (call.prior # <<>> /\ call.prior[1] \in Range(call.path))
                      => resets = {}
                /\ \A f \in LinesRead(call) :
                      LexRank(TimeOfFix(f)) < LexRank(call.start)
                      => PointOf(f) \notin Range(call.path)

\* a call whose path keeps the carried-over point before a fix it read, and a
\* call that was handed a point and read a fix at or before its start
C16_Witness ==
    /\ \E i \in DOMAIN calls :
          /\ calls[i].error = <<>>
          /\ calls[i].prior # <<>>
          /\ Len(calls[i].path) >= 2
          /\ calls[i].path[1] = calls[i].prior[1]
    /\ \E i \in DOMAIN calls :
          /\ calls[i].error = <<>>
          /\ calls[i].prior # <<>>
          /\ ResetFixes(calls[i]) # {}

(***************************************************************************)
(* C17: when, from the position a call of build_track_geometry starts at,  *)
(* the stream holds a fix whose timestamp is the window's end and not      *)
(* before its start, the call stops at the first such fix: the call has    *)
(* read up to it and no further, its point is the last point of the path   *)
(* and the point returned, and the next call starts right after it and is  *)
(* handed that point.                                                      *)
(***************************************************************************)
Min(S) == CHOOSE n \in S : \A m \in S : n <= m
EndFixes(call) ==
    {f \in (call.from + 1)..Len(point_lines) :
        /\ TimeOfFix(f) = call.end
        /\ LexRank(TimeOfFix(f)) >= LexRank(call.start)}

C17_StopsAtFirstFixAtWindowEnd ==
    \A i \in DOMAIN calls :
        (calls[i].error = <<>> /\ EndFixes(calls[i]) # {}) =>
            LET first_end == Min(EndFixes(calls[i]))
            IN  /\ calls[i].to = first_end
                /\ calls[i].path # <<>>
                /\ Last(calls[i].path) = PointOf(first_end)
                /\ calls[i].point = <<PointOf(first_end)>>
                /\ i + 1 \in DOMAIN calls =>
                      /\ calls[i + 1].from = first_end
                      /\ calls[i + 1].prior = <<PointOf(first_end)>>

\* a call that stopped at a fix at its window's end, before the end of the
\* stream, and a next call that read the fix after it
C17_Witness ==
    \E i \in DOMAIN calls :
        /\ calls[i].error = <<>>
        /\ EndFixes(calls[i]) # {}
        /\ calls[i].to < Len(point_lines)
        /\ i + 1 \in DOMAIN calls
        /\ calls[i + 1].from + 1 \in LinesRead(calls[i + 1])

(***************************************************************************)
(* C18: a call of build_track_geometry for which no fix from its starting  *)
(* position on is at the window's end and not before its start reads the   *)
(* stream to its end; every later call reads no fix and returns as path    *)
(* the point it was handed, if any, and nothing else; and a call that      *)
(* appends no fix returns null as its point, whatever it was handed.       *)
(***************************************************************************)
FixesAppended(call) ==
    {f \in LinesRead(call) : LexRank(TimeOfFix(f)) >= LexRank(call.start)}

C18_UnmatchedEndDrainsTheStream ==
    \A i \in DOMAIN calls :
        calls[i].error = <<>> =>
            /\ EndFixes(calls[i]) = {} =>
                  /\ calls[i].to = Len(point_lines)
                  /\ \A j \in DOMAIN calls :
                        j > i => /\ LinesRead(calls[j]) = {}
                                 /\ calls[j].path = CarriedOver(calls[j])
                                 /\ Len(calls[j].path) <= 1
            /\ FixesAppended(calls[i]) = {} => calls[i].point = <<>>

\* a call read fixes to the end of the stream without meeting its window's
\* end; the next was handed its last point, returned it alone as path and
\* null as point; the one after that returned an empty path
C18_Witness ==
    \E i \in DOMAIN calls :
        /\ calls[i].error = <<>>
        /\ EndFixes(calls[i]) = {}
        /\ FixesAppended(calls[i]) # {}
        /\ i + 2 \in DOMAIN calls
        /\ calls[i + 1].prior # <<>>
        /\ calls[i + 1].path = <<calls[i + 1].prior[1]>>
        /\ calls[i + 1].point = <<>>
        /\ calls[i + 2].path = <<>>

(***************************************************************************)
(* C19 (as stated): no name the loop over the feature files has handed to  *)
(* process_feature_path_v1 is the name of the track log file or of the GPS *)
(* points file, whichever of the two files the folder holds.               *)
(***************************************************************************)
\* the names the loop has handed to process_feature_path_v1 so far
HandedToFeatureProcessing ==
    {csv_filenames[k] : k \in {j \in DOMAIN csv_filenames :
                                  \/ j <= feature_idx
                                  \/ pc = "feature_rows" /\ j = feature_idx + 1}}

C19_TrackAndFixFilesAreNoFeatureFiles ==
    /\ track_logs_csv_name \notin HandedToFeatureProcessing
    /\ gps_points_csv_name \notin HandedToFeatureProcessing

====
